---- MODULE Spec2Model ----
(***************************************************************************)
(* Model of the blackjack-backend repository.                              *)
(*                                                                         *)
(*   preprocess_data.py  the offline pass: for every *_results.json file   *)
(*                       of RESULTS_DIR, one loop iteration reduces the    *)
(*                       outcome sequence to a summary and writes          *)
(*                       <key>_summary.json and <key>_sampled.parquet.     *)
(*   app.py              the serving layer: reads the summary files and    *)
(*                       returns them with a name and a description.       *)
(*                                                                         *)
(* Numbers.  Profits and bets are integers.  A float of the program is an  *)
(* exact fraction [num, den] in lowest terms with den > 0; NaN is the      *)
(* fraction 0/0.  Rounding of floating-point arithmetic is not modelled,   *)
(* and a JSON file is the value written to it, not its text.               *)
(* The standard deviation is kept as the exact variance under a root.      *)
(***************************************************************************)
EXTENDS Integers, Sequences, FiniteSets, TLC

VARIABLES
    results,       \* RESULTS_DIR: file name -> the JSON array it holds
    result_files,  \* the listing os.listdir returned, in its order
    pos,           \* index in result_files of the file the loop is at
    pc,            \* "start", "running", "done" (loop ended) or "crashed" (exception)
    error,         \* the exception that ended the run, or "none"
    processed_dir, \* whether the directory PROCESSED_DIR exists
    processed,     \* PROCESSED_DIR: strategy key -> content of <key>_summary.json
    sampled,       \* PROCESSED_DIR: strategy key -> rows of <key>_sampled.parquet
    response       \* the last HTTP response of the serving layer

vars == <<results, result_files, pos, pc, error, processed_dir, processed, sampled,
          response>>

(***************************************************************************)
(* Bounds of the model.                                                    *)
(***************************************************************************)
MaxLen == 4        \* longest sequence without bet fields, fully enumerated
MaxBetLen == 2     \* longest sequence with bet fields, fully enumerated
MaxN == 1000       \* longest cyclic sequence given to the sampler
MaxBatchLen == 1   \* longest sequence of a file in a batch run

(***************************************************************************)
(* Program constants.                                                      *)
(***************************************************************************)
DefaultBet == 10
MaxPoints == 500
BigLossHigh == -20
SmallLossHigh == 0
SmallWinHigh == 20
BigWinLow == 20

(***************************************************************************)
(* Numbers.                                                                *)
(***************************************************************************)
Abs(x) == IF x < 0 THEN -x ELSE x

RECURSIVE GCD(_, _)
GCD(a, b) == IF b = 0 THEN a ELSE GCD(b, a % b)

NaN == [num |-> 0, den |-> 0]

Sign(x) == IF x < 0 THEN -1 ELSE IF x > 0 THEN 1 ELSE 0

\* the float n / d, d >= 0, in lowest terms; numpy gives nan for 0 / 0 and an
\* infinity for n / 0, kept here as the fractions 0/0, 1/0 and -1/0
Rat(n, d) ==
    IF d = 0 THEN [num |-> Sign(n), den |-> 0]
    ELSE LET g == GCD(Abs(n), d) IN [num |-> n \div g, den |-> d \div g]

\* float(n) of an integer n
Float(n) == [num |-> n, den |-> 1]

IsNaN(x) == x.den = 0 /\ x.num = 0

\* x > y on floats: false when either is NaN
FloatGreater(x, y) == ~IsNaN(x) /\ ~IsNaN(y) /\ x.num * y.den > y.num * x.den

\* x / y * 100 on floats, y > 0
FloatPercent(x, y) == Rat(x.num * y.den * 100, x.den * y.num)

\* sum of f[lo..hi], splitting the range in halves
RECURSIVE SumRange(_, _, _)
SumRange(f, lo, hi) ==
    IF lo > hi THEN 0
    ELSE IF lo = hi THEN f[lo]
    ELSE LET mid == (lo + hi) \div 2
         IN  SumRange(f, lo, mid) + SumRange(f, mid + 1, hi)

\* ndarray.sum() of an integer array
ArraySum(a) == SumRange(a, 1, Len(a))

\* np.sum(mask): the number of true entries
CountTrue(mask) == ArraySum([i \in 1..Len(mask) |-> IF mask[i] THEN 1 ELSE 0])

\* ndarray.sum() of a float array: NaN as soon as one entry is NaN
FloatArraySum(a) ==
    IF \E i \in 1..Len(a) : IsNaN(a[i]) THEN NaN
    ELSE Float(ArraySum([i \in 1..Len(a) |-> a[i].num]))

\* np.cumsum: running totals of a[lo..hi] on top of base
RECURSIVE CumsumRange(_, _, _, _)
CumsumRange(a, lo, hi, base) ==
    IF lo > hi THEN << >>
    ELSE IF lo = hi THEN << base + a[lo] >>
    ELSE LET mid == (lo + hi) \div 2
             left == CumsumRange(a, lo, mid, base)
         IN  left \o CumsumRange(a, mid + 1, hi, left[Len(left)])

\* mutant: the running total before each hand instead of after it
cumsum_exclusive(a) == << 0 >> \o CumsumRange(a, 1, Len(a) - 1, 0)

cumsum(a) == CumsumRange(a, 1, Len(a), 0)

Min(a, b) == IF a <= b THEN a ELSE b

\* mutant: the spacing of endpoint=False, which stops short of stop
linspace_no_endpoint(start, stop, num) ==
    [i \in 1..num |-> start + ((i - 1) * (stop - start)) \div num]

\* np.linspace(start, stop, num, dtype=int), 0 <= start <= stop, num >= 1:
\* num evenly spaced values, each floored, the last one set to stop.
linspace(start, stop, num) ==
    [i \in 1..num |->
        IF num = 1 THEN start
        ELSE IF i = num THEN stop
        ELSE start + ((i - 1) * (stop - start)) \div (num - 1)]

(***************************************************************************)
(* The DataFrame of one file.                                              *)
(***************************************************************************)
\* mutant: a profit column that is taken to exist whatever the records hold
HasProfitColumn_lenient(data) == TRUE

\* 'profit' in df.columns: some record carries the key
HasProfitColumn(data) == \E i \in 1..Len(data) : "profit" \in DOMAIN data[i]

\* 'bet' in df.columns
HasBetColumn(data) == \E i \in 1..Len(data) : "bet" \in DOMAIN data[i]

\* df['profit'].values (every record of the model carries profit)
profits_of(data) == [i \in 1..Len(data) |-> data[i].profit]

\* df.get('bet', 10).values if 'bet' in df.columns else np.full(len(df), 10):
\* a record without bet holds NaN in a bet column that exists
bets_of(data) ==
    IF HasBetColumn(data)
    THEN [i \in 1..Len(data) |->
            IF "bet" \in DOMAIN data[i] THEN Float(data[i].bet) ELSE NaN]
    ELSE [i \in 1..Len(data) |-> Float(DefaultBet)]

(***************************************************************************)
(* The statistics of lines 40-45.                                          *)
(***************************************************************************)
total_profit_of(data) == ArraySum(profits_of(data))

total_wagered_of(data) == FloatArraySum(bets_of(data))

\* mutant: a hand that breaks even counted as a win
win_rate_of_nonneg(data) ==
    LET profits == profits_of(data)
    IN  Rat(CountTrue([i \in 1..Len(profits) |-> profits[i] >= 0]) * 100, Len(profits))

win_rate_of(data) ==
    LET profits == profits_of(data)
    IN  Rat(CountTrue([i \in 1..Len(profits) |-> profits[i] > 0]) * 100, Len(profits))

avg_net_per_hand_of(data) == Rat(total_profit_of(data), Len(data))

\* profits.std(): the root of the population variance
\*   sum((p - mean)^2) / N  =  (N * sum(p^2) - sum(p)^2) / N^2
std_deviation_of(data) ==
    LET profits == profits_of(data)
        n == Len(profits)
        s == ArraySum(profits)
        q == ArraySum([i \in 1..n |-> profits[i] * profits[i]])
    IN  [sqrt_of |-> Rat(n * q - s * s, n * n)]

\* mutant: the division without the guard on total_wagered
roi_of_unguarded(data) ==
    LET total_wagered == total_wagered_of(data)
    IN  IF IsNaN(total_wagered) THEN NaN
        ELSE Rat(total_profit_of(data) * 100 * Sign(total_wagered.num),
                 Abs(total_wagered.num))

roi_of(data) ==
    LET total_profit == total_profit_of(data)
        total_wagered == total_wagered_of(data)
    IN  IF FloatGreater(total_wagered, Float(0))
        THEN FloatPercent(Float(total_profit), total_wagered)
        ELSE Float(0)

(***************************************************************************)
(* The winnings distribution of lines 47-63.                               *)
(***************************************************************************)
\* a bound of a range: a finite number, float('inf') or -float('inf')
Finite(v) == [inf |-> "no", v |-> v]
NegInf == [inf |-> "-inf", v |-> 0]
PosInf == [inf |-> "+inf", v |-> 0]

winnings_ranges ==
    << [low |-> NegInf,                high |-> Finite(BigLossHigh),
        name |-> "Big Loss (<-$20)"],
       [low |-> Finite(BigLossHigh),   high |-> Finite(SmallLossHigh),
        name |-> "Small Loss (-$20 to $0)"],
       [low |-> Finite(SmallLossHigh), high |-> Finite(SmallWinHigh),
        name |-> "Small Win ($0 to $20)"],
       [low |-> Finite(BigWinLow),     high |-> PosInf,
        name |-> "Big Win (>$20)"] >>

\* mutant: the open-ended lower range with its bound excluded
range_count_exclusive(profits, r) ==
    IF r.high = PosInf
    THEN CountTrue([i \in 1..Len(profits) |-> profits[i] >= r.low.v])
    ELSE IF r.low = NegInf
    THEN CountTrue([i \in 1..Len(profits) |-> profits[i] < r.high.v])
    ELSE CountTrue([i \in 1..Len(profits) |-> profits[i] > r.low.v /\ profits[i] <= r.high.v])

\* the count of one range: the three branches of lines 57-62
range_count(profits, r) ==
    IF r.high = PosInf
    THEN CountTrue([i \in 1..Len(profits) |-> profits[i] >= r.low.v])
    ELSE IF r.low = NegInf
    THEN CountTrue([i \in 1..Len(profits) |-> profits[i] <= r.high.v])
    ELSE CountTrue([i \in 1..Len(profits) |-> profits[i] > r.low.v /\ profits[i] <= r.high.v])

winnings_distribution_of(data) ==
    LET profits == profits_of(data)
    IN  [b \in 1..Len(winnings_ranges) |->
            [name |-> winnings_ranges[b].name,
             value |-> range_count(profits, winnings_ranges[b])]]

(***************************************************************************)
(* The sampled bankroll history of lines 65-73.                            *)
(***************************************************************************)
sample_size_of(data) == Min(MaxPoints, Len(data))

\* the 0-based indices of the sample
indices_of(data) == linspace(0, Len(data) - 1, sample_size_of(data))

bankroll_history_of(data) ==
    LET cumulative_profits == cumsum(profits_of(data))
        indices == indices_of(data)
    IN  [j \in 1..Len(indices) |->
            [hand |-> indices[j],
             bankroll |-> Float(cumulative_profits[indices[j] + 1])]]

(***************************************************************************)
(* The summary record of lines 75-85.                                      *)
(***************************************************************************)
summary_stats_of(data) ==
    [simulations          |-> Len(profits_of(data)),
     totalWinnings        |-> Float(total_profit_of(data)),
     winRate              |-> win_rate_of(data),
     avgNetPerHand        |-> avg_net_per_hand_of(data),
     stdDeviation         |-> std_deviation_of(data),
     roi                  |-> roi_of(data),
     winningsDistribution |-> winnings_distribution_of(data),
     bankrollHistory      |-> bankroll_history_of(data)]

\* df.iloc[indices]: the rows written to the parquet file
sampled_df_of(data) ==
    LET indices == indices_of(data)
    IN  [j \in 1..Len(indices) |-> data[indices[j] + 1]]

(***************************************************************************)
(* File names and strategy keys.                                           *)
(***************************************************************************)
\* the files of RESULTS_DIR in a batch run, and the keys clients ask for
ResultFiles == {"basic_results.json", "card_counter_results.json",
                "fixed_threshold_17_results.json"}
RequestKeys == {"basic", "card-counter", "fixed-threshold-17", "mimic-dealer"}

\* filename.replace("_results.json", "").replace("_", "-") on these names
strategy_key_of(filename) ==
    CASE filename = "basic_results.json" -> "basic"
      [] filename = "card_counter_results.json" -> "card-counter"
      [] filename = "fixed_threshold_17_results.json" -> "fixed-threshold-17"
      [] filename = "mimic_dealer_results.json" -> "mimic-dealer"

\* f"{strategy_key.replace('-', '_')}_results.json" on these keys
filename_of(strategy_key) ==
    CASE strategy_key = "basic" -> "basic_results.json"
      [] strategy_key = "card-counter" -> "card_counter_results.json"
      [] strategy_key = "fixed-threshold-17" -> "fixed_threshold_17_results.json"
      [] strategy_key = "mimic-dealer" -> "mimic_dealer_results.json"

\* os.listdir of a directory holding the files S: the files once each, in any order
Listings(S) ==
    {l \in [1..Cardinality(S) -> S] : \A i, j \in 1..Cardinality(S) : i # j => l[i] # l[j]}

\* a write of one file of PROCESSED_DIR
WriteFile(dir, key, content) ==
    [k \in DOMAIN dir \cup {key} |-> IF k = key THEN content ELSE dir[k]]

NoFiles == [k \in {} |-> 0]

NoResponse == [route |-> "none", arg |-> "", status |-> 0, body |-> << >>]

(***************************************************************************)
(* One iteration of the loop of process_json_to_parquet (lines 21-101).    *)
(* df['profit'] raises KeyError when no record carries profit, which is    *)
(* the case of the empty array; nothing catches it, so the run ends there. *)
(***************************************************************************)
\* lines 14-19: the directory is created and RESULTS_DIR listed, in any order
Start ==
    /\ pc = "start"
    /\ processed_dir' = TRUE
    /\ \E listing \in Listings(DOMAIN results) : result_files' = listing
    /\ pc' = "running"
    /\ UNCHANGED <<results, pos, error, processed, sampled, response>>

ProcessFile ==
    /\ pc = "running"
    /\ pos <= Len(result_files)
    /\ LET filename == result_files[pos]
           strategy_key == strategy_key_of(filename)
           data == results[filename]
       IN  IF ~HasProfitColumn(data)
           THEN /\ pc' = "crashed"
                /\ error' = "KeyError"
                /\ UNCHANGED <<pos, processed, sampled>>
           ELSE /\ processed' = WriteFile(processed, strategy_key, summary_stats_of(data))
                /\ sampled' = WriteFile(sampled, strategy_key, sampled_df_of(data))
                /\ pos' = pos + 1
                /\ UNCHANGED <<pc, error>>
    /\ UNCHANGED <<results, result_files, processed_dir, response>>

\* the loop has run out of files (lines 103-104)
Finish ==
    /\ pc = "running"
    /\ pos > Len(result_files)
    /\ pc' = "done"
    /\ UNCHANGED <<results, result_files, pos, error, processed_dir, processed, sampled,
                   response>>

(***************************************************************************)
(* The serving layer (app.py).  A summary file is read back as the JSON    *)
(* value that was written to it, so the except branches of the handlers    *)
(* (an unreadable file, a summary without a field) do not occur.  The body *)
(* of GET / leaves out the port and the directory names.                   *)
(***************************************************************************)
\* get_strategy_info_from_key: the label table, the fixed-threshold rule and
\* the title-cased fallback, on the keys of the model
get_strategy_info_from_key(strategy_key) ==
    CASE strategy_key = "fixed-threshold-17" ->
            [name |-> "Fixed Threshold (17)",
             description |-> "Player always hits until their hand value is 17 or more."]
      [] strategy_key = "basic" ->
            [name |-> "Basic Strategy",
             description |-> "Follows the mathematically optimal decisions for hitting, standing, and doubling."]
      [] strategy_key = "card-counter" ->
            [name |-> "Card Counter",
             description |-> "Adjusts strategy and bets based on the count of high vs. low cards."]
      [] strategy_key = "mimic-dealer" ->
            [name |-> "Mimic Dealer",
             description |-> "Player hits until 17, just like the dealer."]

\* get_strategy_info: the same labels, looked up by file name
get_strategy_info(filename) ==
    CASE filename = "fixed_threshold_17_results.json" ->
            [name |-> "Fixed Threshold (17)",
             description |-> "Player always hits until their hand value is 17 or more."]
      [] filename = "basic_results.json" ->
            [name |-> "Basic Strategy",
             description |-> "Follows the mathematically optimal decisions for hitting, standing, and doubling."]
      [] filename = "card_counter_results.json" ->
            [name |-> "Card Counter",
             description |-> "Adjusts strategy and bets based on the count of high vs. low cards."]
      [] filename = "mimic_dealer_results.json" ->
            [name |-> "Mimic Dealer",
             description |-> "Player hits until 17, just like the dealer."]

\* mutant: a response built from the scalar fields only
with_info_trimmed(data, info) ==
    [f \in (DOMAIN data \ {"bankrollHistory"}) \cup {"name", "description"} |->
        IF f = "name" THEN info.name
        ELSE IF f = "description" THEN info.description
        ELSE data[f]]

\* {**data, "name": info["name"], "description": info["description"]}
with_info(data, info) ==
    [f \in DOMAIN data \cup {"name", "description"} |->
        IF f = "name" THEN info.name
        ELSE IF f = "description" THEN info.description
        ELSE data[f]]

\* load_and_process_results: the summary of the file's strategy, when it exists
summary_exists(filename) == strategy_key_of(filename) \in DOMAIN processed
load_and_process_results(filename) == processed[strategy_key_of(filename)]

\* get_all_processed_strategies: every summary file with its labels
get_all_processed_strategies ==
    [k \in DOMAIN processed |-> with_info(processed[k], get_strategy_info_from_key(k))]

\* strategy_key.startswith("fixed-threshold-") and strategy_key != "fixed-threshold-16"
other_fixed_threshold(strategy_key) ==
    strategy_key \in {"fixed-threshold-17"}

\* the keys the comparison keeps, in the order of the listing
compared_keys(listing) == SelectSeq(listing, LAMBDA k : ~other_fixed_threshold(k))

\* the response to a request of a route with the argument of its URL
Respond(route, arg, status, body) ==
    /\ response' = [route |-> route, arg |-> arg, status |-> status, body |-> body]
    /\ UNCHANGED <<results, result_files, pos, pc, error, processed_dir, processed, sampled>>

\* GET /
home == Respond("/", "", 200, [status |-> "ok", message |-> "Blackjack API is running"])

\* GET /api/strategies
get_all_strategies == Respond("/api/strategies", "", 200, get_all_processed_strategies)

\* GET /api/strategy/<strategy_key>
get_strategy(strategy_key) ==
    LET filename == filename_of(strategy_key)
    IN  IF ~summary_exists(filename)
        THEN Respond("/api/strategy", strategy_key, 404, [error |-> "Strategy not found"])
        ELSE Respond("/api/strategy", strategy_key, 200,
                     with_info(load_and_process_results(filename),
                               get_strategy_info(filename)))

\* GET /api/comparison
get_comparison_data ==
    IF ~processed_dir
    THEN Respond("/api/comparison", "", 500, [error |-> "Processed data directory not found"])
    ELSE \E listing \in Listings(DOMAIN processed) :
            LET strategies == get_all_processed_strategies
                keys == compared_keys(listing)
                comparison_data ==
                    [i \in 1..Len(keys) |->
                        [name    |-> strategies[keys[i]].name,
                         avg_net |-> strategies[keys[i]].avgNetPerHand,
                         roi     |-> strategies[keys[i]].roi,
                         std_dev |-> strategies[keys[i]].stdDeviation]]
            IN  Respond("/api/comparison", "", 200,
                        [strategies |-> strategies, comparisonData |-> comparison_data])

\* GET /api/quick-comparison
get_quick_comparison ==
    IF ~processed_dir
    THEN Respond("/api/quick-comparison", "", 500,
                 [error |-> "Processed data directory not found"])
    ELSE \E listing \in Listings(DOMAIN processed) :
            LET strategies == get_all_processed_strategies
                keys == compared_keys(listing)
                comparison_data ==
                    [i \in 1..Len(keys) |->
                        [key           |-> keys[i],
                         name          |-> strategies[keys[i]].name,
                         description   |-> strategies[keys[i]].description,
                         avgNetPerHand |-> strategies[keys[i]].avgNetPerHand,
                         roi           |-> strategies[keys[i]].roi,
                         stdDeviation  |-> strategies[keys[i]].stdDeviation,
                         winRate       |-> strategies[keys[i]].winRate,
                         totalWinnings |-> strategies[keys[i]].totalWinnings]]
            IN  Respond("/api/quick-comparison", "", 200, [comparisonData |-> comparison_data])

Request ==
    \/ home
    \/ get_all_strategies
    \/ \E strategy_key \in RequestKeys : get_strategy(strategy_key)
    \/ get_comparison_data
    \/ get_quick_comparison

(***************************************************************************)
(* Inputs.                                                                 *)
(***************************************************************************)
ProfitValues == {-30, -20, -5, 0, 5, 20, 25}
BetProfitValues == {-5, 0, 5}
BetValues == {-10, 0, 10}

PlainRecords == {[profit |-> p] : p \in ProfitValues}
BetRecords == {[profit |-> p] : p \in BetProfitValues}
                \cup {[profit |-> p, bet |-> b] : p \in BetProfitValues, b \in BetValues}

SeqsUpTo(S, n) == UNION {[1..k -> S] : k \in 0..n}

CoreInputs == SeqsUpTo(PlainRecords, MaxLen) \cup SeqsUpTo(BetRecords, MaxBetLen)

\* the state before a run over a directory holding the given files
InitWith(files, Inputs) ==
    /\ results \in [files -> Inputs]
    /\ result_files = << >>
    /\ pos = 1
    /\ pc = "start"
    /\ error = "none"
    /\ processed_dir = FALSE
    /\ processed = NoFiles
    /\ sampled = NoFiles
    /\ response = NoResponse

InitCore == InitWith({"basic_results.json"}, CoreInputs)

NextCore == Start \/ ProcessFile \/ Finish

SpecCore == InitCore /\ [][NextCore]_vars

(***************************************************************************)
(* Long inputs for the sampler: a short pattern of profits repeated up to  *)
(* every length 1..MaxN, so that lengths on both sides of MaxPoints occur. *)
(***************************************************************************)
Patterns == { << 5 >>, << -30, 25, 0 >> }

Cyclic(pattern, n) ==
    [i \in 1..n |-> [profit |-> pattern[((i - 1) % Len(pattern)) + 1]]]

SampleInputs == {Cyclic(pattern, n) : pattern \in Patterns, n \in 1..MaxN}

InitSample == InitWith({"basic_results.json"}, SampleInputs)

SpecSample == InitSample /\ [][NextCore]_vars

(***************************************************************************)
(* A batch run over several files, with the serving layer answering        *)
(* requests before, during and after it.                                   *)
(***************************************************************************)
BatchRecords == {[profit |-> 20], [profit |-> -5, bet |-> 10]}

BatchInputs == SeqsUpTo(BatchRecords, MaxBatchLen)

Init == InitWith(ResultFiles, BatchInputs)

Next == Start \/ ProcessFile \/ Finish \/ Request

Spec == Init /\ [][Next]_vars

(***************************************************************************)
(* Properties.  They are stated on the files of RESULTS_DIR and the        *)
(* summaries of PROCESSED_DIR, with sums and counts of their own.          *)
(***************************************************************************)
Written(f) == strategy_key_of(f) \in DOMAIN processed
Stored(f) == processed[strategy_key_of(f)]

\* the sum of s[1..n], one term at a time, in runs of 50 terms
RECURSIVE TotalFrom(_, _, _)
TotalFrom(s, lo, hi) ==
    IF lo > hi THEN 0
    ELSE IF hi - lo >= 50 THEN TotalFrom(s, lo, lo + 49) + TotalFrom(s, lo + 50, hi)
    ELSE s[hi] + TotalFrom(s, lo, hi - 1)

TotalUpTo(s, n) == TotalFrom(s, 1, n)

ProfitTotal(data) == TotalUpTo([i \in 1..Len(data) |-> data[i].profit], Len(data))
NumProfit(data, Test(_)) == Cardinality({i \in 1..Len(data) : Test(data[i].profit)})

BetOnNone(data) == \A i \in 1..Len(data) : "bet" \notin DOMAIN data[i]
BetOnAll(data) == \A i \in 1..Len(data) : "bet" \in DOMAIN data[i]
MixedBet(data) == ~BetOnNone(data) /\ ~BetOnAll(data)

\* the sum of bet, each hand staking 10 when no record carries bet
Wagered(data) ==
    IF BetOnNone(data) THEN 10 * Len(data)
    ELSE TotalUpTo([i \in 1..Len(data) |-> data[i].bet], Len(data))

\* the float x is the fraction n / d
IsFraction(x, n, d) == x.den > 0 /\ x.num * d = n * x.den

\* C1: for every non-empty sequence the four counts of winningsDistribution
\* sum to simulations: every record is counted in exactly one bin.
C1_BinsSumToSimulations ==
    \A f \in DOMAIN results :
        Written(f) =>
            LET d == Stored(f).winningsDistribution
            IN  d[1].value + d[2].value + d[3].value + d[4].value = Stored(f).simulations

\* C4: an empty sequence makes the processing of its file fail in the
\* statistics step (KeyError on the profit column): the iteration of the file
\* never completes, and neither a summary nor a sample is written for its
\* strategy.
C4_EmptyInputFails ==
    \A f \in DOMAIN results :
        Len(results[f]) = 0 =>
            /\ ~Written(f)
            /\ strategy_key_of(f) \notin DOMAIN sampled
            /\ \A i \in 1..Len(result_files) :
                  result_files[i] = f =>
                      /\ pos <= i
                      /\ (pos = i /\ pc # "running" => pc = "crashed" /\ error = "KeyError")

C4_Witness ==
    /\ pc = "crashed"
    /\ error = "KeyError"
    /\ Len(results[result_files[pos]]) = 0
    /\ processed = NoFiles

\* C5: a sequence with bet on some records and not on others fails, and no
\* summary is produced for it.
C5_MixedBetFails ==
    \A f \in DOMAIN results : MixedBet(results[f]) => ~Written(f)

\* C6 as stated: roi is 0 exactly when totalWagered is 0, and for every other
\* totalWagered roi is totalWinnings / totalWagered * 100.
C6_RoiZeroExactlyWhenNothingWagered ==
    \A f \in DOMAIN results :
        Written(f) /\ ~MixedBet(results[f]) =>
            LET w == Wagered(results[f])
                roi == Stored(f).roi
            IN  /\ (roi = Float(0)) <=> (w = 0)
                /\ w # 0 => roi.den > 0 /\ roi.num * w = ProfitTotal(results[f]) * 100 * roi.den

\* C6 amended: roi is 0 whenever totalWagered is 0 or negative, whatever
\* totalWinnings is, and is then no NaN or infinity; for every positive
\* totalWagered roi is totalWinnings / totalWagered * 100 (0 when
\* totalWinnings is 0).
C6_RoiGuarded ==
    \A f \in DOMAIN results :
        Written(f) /\ ~MixedBet(results[f]) =>
            LET w == Wagered(results[f])
                roi == Stored(f).roi
            IN  IF w > 0
                THEN IsFraction(roi, ProfitTotal(results[f]) * 100, w)
                ELSE roi = Float(0)

C6_Witness ==
    \E f \in DOMAIN results :
        /\ Written(f)
        /\ Len(results[f]) > 0
        /\ BetOnAll(results[f])
        /\ Wagered(results[f]) = 0
        /\ ProfitTotal(results[f]) # 0
        /\ Stored(f).roi = Float(0)

ScenarioA == << [profit |-> -30], [profit |-> -5], [profit |-> 5], [profit |-> 25] >>

\* C7: for a non-empty sequence without any bet field, simulations = N,
\* totalWinnings = sum of profit, winRate = 100 * (records with profit > 0) / N,
\* avgNetPerHand = totalWinnings / N and roi = totalWinnings / (10 * N) * 100;
\* the profits -30, -5, 5, 25 give 4, -5, 50, -1.25 and -12.5.
C7_DefaultStakeSummary ==
    \A f \in DOMAIN results :
        Written(f) /\ BetOnNone(results[f]) =>
            LET data == results[f]
                n == Len(data)
                s == Stored(f)
            IN  /\ s.simulations = n
                /\ s.totalWinnings = Float(ProfitTotal(data))
                /\ IsFraction(s.winRate, 100 * NumProfit(data, LAMBDA p : p > 0), n)
                /\ IsFraction(s.avgNetPerHand, ProfitTotal(data), n)
                /\ IsFraction(s.roi, ProfitTotal(data) * 100, 10 * n)
                /\ data = ScenarioA =>
                      /\ s.simulations = 4
                      /\ s.totalWinnings = [num |-> -5, den |-> 1]
                      /\ s.winRate = [num |-> 50, den |-> 1]
                      /\ s.avgNetPerHand = [num |-> -5, den |-> 4]
                      /\ s.roi = [num |-> -25, den |-> 2]

C7_Witness ==
    \E f \in DOMAIN results :
        /\ Written(f)
        /\ results[f] = ScenarioA
        /\ Stored(f).avgNetPerHand = [num |-> -5, den |-> 4]

\* C8: the Big Loss count is the number of records with profit <= -20, and
\* the Small Loss count is the number with -20 < profit <= 0, so a record
\* with profit -20 is in Big Loss and not in Small Loss.
C8_BigLossInclusive ==
    \A f \in DOMAIN results :
        Written(f) =>
            LET d == Stored(f).winningsDistribution
            IN  /\ d[1].name = "Big Loss (<-$20)"
                /\ d[1].value = NumProfit(results[f], LAMBDA p : p <= -20)
                /\ d[2].name = "Small Loss (-$20 to $0)"
                /\ d[2].value = NumProfit(results[f], LAMBDA p : p > -20 /\ p <= 0)

C8_Witness ==
    \E f \in DOMAIN results :
        /\ Written(f)
        /\ \E i \in 1..Len(results[f]) : results[f][i].profit = -20
        /\ Stored(f).winningsDistribution[1].value = Len(results[f])
        /\ Stored(f).winningsDistribution[2].value = 0

\* C2: bankrollHistory has N points when N <= 500 and exactly 500 when
\* N > 500; for N <= 500 the hands are 0, 1, ..., N-1 in order, and for
\* N > 500 the first hand is 0 and the last is N-1.
C2_SampleCountAndEnds ==
    \A f \in DOMAIN results :
        Written(f) =>
            LET n == Len(results[f])
                h == Stored(f).bankrollHistory
            IN  /\ Len(h) = IF n <= 500 THEN n ELSE 500
                /\ n <= 500 => \A j \in 1..Len(h) : h[j].hand = j - 1
                /\ n > 500 => h[1].hand = 0 /\ h[Len(h)].hand = n - 1

C2_Witness ==
    \E f \in DOMAIN results :
        /\ Written(f)
        /\ Len(results[f]) = 1000
        /\ Len(Stored(f).bankrollHistory) = 500
        /\ Stored(f).bankrollHistory[500].hand = 999

\* C3: the hands of bankrollHistory are non-decreasing, each bankroll is the
\* sum of profit over hands 0..hand in simulation order, and the last
\* bankroll is totalWinnings, the sum of all profit.  (The sum up to a hand
\* is checked as the bankroll of the entry before plus the profits of the
\* hands between the two.)
C3_BankrollIsRunningTotal ==
    \A f \in DOMAIN results :
        Written(f) =>
            LET data == results[f]
                profit == [i \in 1..Len(data) |-> data[i].profit]
                h == Stored(f).bankrollHistory
                Between(lo, hi) == TotalUpTo([i \in 1..(hi - lo) |-> profit[lo + i]], hi - lo)
            IN  /\ Len(h) > 0
                /\ h[1].hand >= 0
                /\ h[1].bankroll = Float(Between(0, h[1].hand + 1))
                /\ \A j \in 2..Len(h) :
                      /\ h[j].hand >= h[j - 1].hand
                      /\ h[j].hand < Len(data)
                      /\ h[j].bankroll =
                            Float(h[j - 1].bankroll.num + Between(h[j - 1].hand + 1, h[j].hand + 1))
                /\ h[Len(h)].bankroll = Stored(f).totalWinnings
                /\ Stored(f).totalWinnings = Float(ProfitTotal(data))

C3_Witness ==
    \E f \in DOMAIN results :
        /\ Written(f)
        /\ Len(results[f]) > 500
        /\ Stored(f).totalWinnings # Float(0)
        /\ Stored(f).bankrollHistory[500].bankroll = Stored(f).totalWinnings
        /\ Stored(f).bankrollHistory[2].bankroll # Stored(f).bankrollHistory[1].bankroll

\* C9: each strategy is processed independently: once the run has ended, every
\* file whose own sequence can be processed has its summary written, whatever
\* the other files hold and whatever the order of the files.
C9_StrategiesIndependent ==
    pc \in {"done", "crashed"} =>
        \A f \in DOMAIN results : Len(results[f]) > 0 => Written(f)

SummaryFields == {"simulations", "totalWinnings", "winRate", "avgNetPerHand",
                  "stdDeviation", "roi", "winningsDistribution", "bankrollHistory"}

\* the body of a response is the stored record of key with a name and a description
CarriesStored(body, key) ==
    /\ key \in DOMAIN processed
    /\ DOMAIN processed[key] = SummaryFields
    /\ DOMAIN body = SummaryFields \cup {"name", "description"}
    /\ \A field \in SummaryFields : body[field] = processed[key][field]

ResponsesCarryStored ==
    /\ response.route = "/api/strategy" /\ response.status = 200 =>
          CarriesStored(response.body, response.arg)
    /\ response.route = "/api/strategies" =>
          \A key \in DOMAIN response.body : CarriesStored(response.body[key], key)

\* C10: the single-strategy and all-strategies responses carry the eight
\* summary fields with exactly the stored values, adding only name and
\* description, and a request leaves the stored records as they were.
C10_ServedVerbatim ==
    /\ []ResponsesCarryStored
    /\ [][response' # response => UNCHANGED <<results, processed, sampled>>]_vars

C10_Witness ==
    /\ response.route = "/api/strategy"
    /\ response.status = 200
    /\ response.arg = "card-counter"
    /\ response.body.simulations > 0
    /\ response.body.name = "Card Counter"
    /\ Cardinality(DOMAIN processed) > 1

====
